---- MODULE Spec2Model ----
(***************************************************************************)
(* A model of Data/qvs_sample_files/sample_cpp.cpp: the class              *)
(* QuantumVulnerableCrypto (generateRSAKeys, encryptRSA,                   *)
(* generateAES128Key, encryptAES, generateECCKeys, signECC) and main.      *)
(*                                                                         *)
(* The cryptographic library is outside the file.  Its calls are modelled  *)
(* by what they do to the caller's buffers and handles: lengths, return    *)
(* values, in-place updates, failure results.  The primitives themselves   *)
(* are small stand-ins with the algebra of the real ones: a keyed          *)
(* permutation of 16-byte blocks for the AES block function, a keyed       *)
(* permutation of RSA_size-byte blocks under PKCS#1 v1.5 type 2 padding    *)
(* for RSA, and ECDSA over a curve of prime order 149 for P-256.           *)
(***************************************************************************)
EXTENDS Integers, Sequences, FiniteSets, TLC

VARIABLES
    pc,            \* position of the running routine
    message,       \* std::string message
    rsa,           \* RSA* handle: [st, n, key], n telling whether the modulus is there
    bne,           \* BIGNUM* handle of generateRSAKeys: its status
    encrypted,     \* std::vector<unsigned char> returned by encryptRSA
    rsaRet,        \* history: the RSA_public_encrypt call and whether encryptRSA returned
    aesKey,        \* std::vector<unsigned char> aesKey
    ivGen,         \* history: the IV as RAND_bytes left it, before encryption
    encryptedAes,  \* std::vector<unsigned char> returned by encryptAES
    ecc,           \* EC_KEY* handle: [st, d]
    dataBytes,     \* std::vector<unsigned char> dataBytes
    signature,     \* std::vector<unsigned char> returned by signECC
    sigRet,        \* history: the ECDSA_sign call: its result, stored length, nonce
    steps,         \* history: the routines main has entered, in order
    libOk,         \* history: every library call and allocation so far succeeded
    frees,         \* history: how many times each handle was released
    badUse,        \* history: a handle was passed to the library while not live
    stop           \* what ended the run early: an exception or a signal

vars == <<pc, message, rsa, bne, encrypted, rsaRet, aesKey, ivGen, encryptedAes,
          ecc, dataBytes, signature, sigRet, steps, libOk, frees, badUse, stop>>

----------------------------------------------------------------------------
(* Bounds of the exploration. *)

\* longest message given to encryptAES by the AES harness
MaxAesLen == 33
\* how far past the PKCS#1 capacity the RSA harness' messages go
RsaOverCapacity == 2
\* longest data given to signECC by the ECC harness
MaxDataLen == 2

----------------------------------------------------------------------------
(* Bytes and buffers. *)

Byte == 0..255

Zeros(n) == [i \in 1..n |-> 0]

\* std::copy(src.begin(), src.end(), dst.begin() + (at - 1))
Copy(src, dst, at) ==
    [i \in 1..Len(dst) |->
        IF i >= at /\ i < at + Len(src) THEN src[i - at + 1] ELSE dst[i]]

RECURSIVE XorBits(_, _, _)
XorBits(a, b, n) ==
    IF n = 0 THEN 0
    ELSE (((a % 2) + (b % 2)) % 2) + 2 * XorBits(a \div 2, b \div 2, n - 1)

Xor(a, b) == XorBits(a, b, 8)

XorBlock(x, y) == [i \in 1..Len(x) |-> Xor(x[i], y[i])]

\* the bytes of a test message: length n, contents fixed by seed
MkMsg(n, seed) == [i \in 1..n |-> (seed * i) % 256]

\* "random" bytes: what RAND_bytes may write into an n-byte buffer
RandSeeds == {7, 201}
RandomBuf(n, seed) == [i \in 1..n |-> (seed * i + 11) % 256]

\* RAND_bytes(buf, n): fills buf (rnd > 0) or fails and leaves it as it was
RAND_bytes(buf, rnd) ==
    IF rnd = 0 THEN buf ELSE RandomBuf(Len(buf), rnd)

----------------------------------------------------------------------------
(* AES-128-CBC. *)

AES_BLOCK_SIZE == 16

\* the block function's byte substitution and its inverse (7 * 183 = 1 mod 256)
SubByte(x) == (x * 7 + 99) % 256
InvSubByte(y) == ((y + 157) * 183) % 256

\* the block function's byte transposition and its inverse (5 * 13 = 1 mod 16)
ShiftIdx(i) == ((5 * (i - 1)) % AES_BLOCK_SIZE) + 1
InvShiftIdx(j) == ((13 * (j - 1)) % AES_BLOCK_SIZE) + 1

\* one block under the key schedule of AES_set_encrypt_key(key, 128, &aesKey)
AES_encrypt(in, key) ==
    [i \in 1..AES_BLOCK_SIZE |-> SubByte(Xor(in[ShiftIdx(i)], key[i]))]

AES_decrypt(out, key) ==
    [j \in 1..AES_BLOCK_SIZE |->
        Xor(InvSubByte(out[InvShiftIdx(j)]), key[InvShiftIdx(j)])]

Block(buf, b) == SubSeq(buf, (b - 1) * AES_BLOCK_SIZE + 1, b * AES_BLOCK_SIZE)

\* the ciphertext blocks of CBC, chained from ivec
RECURSIVE CbcChain(_, _, _, _)
CbcChain(in, nblocks, key, ivec) ==
    IF nblocks = 0 THEN <<>>
    ELSE LET prev == CbcChain(in, nblocks - 1, key, ivec)
             last == IF nblocks = 1 THEN ivec ELSE Block(prev, nblocks - 1)
         IN prev \o AES_encrypt(XorBlock(Block(in, nblocks), last), key)

\* AES_cbc_encrypt(in, out, length, &aesKey, ivec, AES_ENCRYPT) for a length
\* that is a multiple of the block size: what it writes to out, and what it
\* leaves in ivec (the last ciphertext block: ivec is updated in place)
AES_cbc_encrypt(in, length, key, ivec) ==
    LET n == length \div AES_BLOCK_SIZE
        out == CbcChain(in, n, key, ivec)
    IN [out |-> out, ivec |-> IF n = 0 THEN ivec ELSE Block(out, n)]

\* AES_cbc_encrypt(..., AES_DECRYPT): the plaintext of ciphertext ct under iv
CbcDecrypt(ct, key, iv) ==
    LET n == Len(ct) \div AES_BLOCK_SIZE
        PlainBlock(b) ==
            XorBlock(AES_decrypt(Block(ct, b), key),
                     IF b = 1 THEN iv ELSE Block(ct, b - 1))
    IN [i \in 1..(n * AES_BLOCK_SIZE) |->
           PlainBlock(((i - 1) \div AES_BLOCK_SIZE) + 1)
                     [((i - 1) % AES_BLOCK_SIZE) + 1]]

\* size_t paddedLength = ((message.length() / AES_BLOCK_SIZE) + 1) * AES_BLOCK_SIZE
PaddedLengthNoExtraBlock(n) ==
    ((n + AES_BLOCK_SIZE - 1) \div AES_BLOCK_SIZE) * AES_BLOCK_SIZE
PaddedLength(n) == ((n \div AES_BLOCK_SIZE) + 1) * AES_BLOCK_SIZE

\* the bytes copied to the front of output: the IV as generated, copied before
\* the encryption call updates the iv vector
OutputIvCopiedAfter(iv, ivAfterEncrypt) == ivAfterEncrypt
OutputIv(iv, ivAfterEncrypt) == iv

\* std::vector<unsigned char> paddedMessage(paddedLength, 0); std::copy(message...)
PaddedMessageShifted(msg, paddedLength) == Copy(msg, Zeros(paddedLength), 2)
PaddedMessage(msg, paddedLength) == Copy(msg, Zeros(paddedLength), 1)

\* encryptAES(key, message), rnd being what RAND_bytes draws for the IV
encryptAES(key, msg, rnd) ==
    LET iv == RAND_bytes(Zeros(AES_BLOCK_SIZE), rnd)
        paddedLength == PaddedLength(Len(msg))
        output0 == Zeros(Len(iv) + paddedLength)
        paddedMessage == PaddedMessage(msg, paddedLength)
        r == AES_cbc_encrypt(paddedMessage, paddedLength, key, iv)
        output1 == Copy(OutputIv(iv, r.ivec), output0, 1)
    IN [iv |-> iv, output |-> Copy(r.out, output1, Len(iv) + 1)]

----------------------------------------------------------------------------
(* RSA with PKCS#1 v1.5 padding. *)

\* RSA_generate_key_ex(rsa, 2048, bne, nullptr)
RSA_KEY_BITS == 2048
\* RSA_PKCS1_PADDING_SIZE: the bytes PKCS#1 v1.5 type 2 padding needs
RSA_PKCS1_PADDING_SIZE == 11

\* the key pairs RSA_generate_key_ex may produce (0 is "no key pair")
RsaKeyIds == {3, 5}

\* RSA_size(rsa): the size of the modulus in bytes, 0 for the zero modulus a
\* failed key generation may leave (a null modulus is dereferenced: see EncryptRSA)
RSA_size(h) == IF h.n = "set" THEN (RSA_KEY_BITS + 7) \div 8 ELSE 0

\* the public and the private operation on a block of RSA_size bytes
RSAEP(em, key) ==
    [i \in 1..Len(em) |-> (em[Len(em) + 1 - i] + key * i) % 256]
RSADP(c, key) ==
    [j \in 1..Len(c) |->
        (c[Len(c) + 1 - j] + 256 * key * Len(c) - key * (Len(c) + 1 - j)) % 256]

\* EM = 0x00 || 0x02 || PS || 0x00 || M, PS being nonzero random bytes
PKCS1_type_2(m, k, rnd) ==
    <<0, 2>> \o [i \in 1..(k - 3 - Len(m)) |-> 1 + ((rnd * i) % 255)]
             \o <<0>> \o m

\* RSA_public_encrypt(flen, from, to, rsa, RSA_PKCS1_PADDING): the value it
\* returns and what it leaves in to.  It fails, returning -1, when the key has
\* no usable modulus, when flen exceeds RSA_size(rsa) - 11 or when no random
\* padding can be drawn (rnd = 0).
RSA_public_encrypt(flen, from, to, h, rnd) ==
    IF h.n # "set" \/ flen > RSA_size(h) - RSA_PKCS1_PADDING_SIZE \/ rnd = 0
    THEN [ret |-> -1, to |-> to]
    ELSE [ret |-> RSA_size(h),
          to  |-> Copy(RSAEP(PKCS1_type_2(SubSeq(from, 1, flen),
                                          RSA_size(h), rnd), h.key), to, 1)]

\* the index of the first zero byte of em from index i on, 0 if none
Separator(em, i) ==
    LET zeroAt == {j \in i..Len(em) : em[j] = 0}
    IN IF zeroAt = {} THEN 0
       ELSE CHOOSE j \in zeroAt : \A k \in zeroAt : j <= k

\* RSA_private_decrypt(flen, from, to, rsa, RSA_PKCS1_PADDING) with the private
\* key of the pair: the recovered message, or failure
RSA_private_decrypt(c, h) ==
    IF h.n # "set" \/ Len(c) > RSA_size(h) THEN [ok |-> FALSE, msg |-> <<>>]
    ELSE LET em == RSADP(Zeros(RSA_size(h) - Len(c)) \o c, h.key)
             sep == Separator(em, 3)
         IN IF em[1] = 0 /\ em[2] = 2 /\ sep >= RSA_PKCS1_PADDING_SIZE
            THEN [ok |-> TRUE, msg |-> SubSeq(em, sep + 1, Len(em))]
            ELSE [ok |-> FALSE, msg |-> <<>>]

\* message.c_str(): the bytes of the string and its terminating NUL
c_str(msg) == msg \o <<0>>

\* the flen argument: message.length()
LengthWithTerminator(msg) == Len(msg) + 1
FlenArg(msg) == Len(msg)

\* v.resize(n) with n converted from int to size_t: a negative n becomes a
\* value above max_size() and resize throws std::length_error; otherwise the
\* vector is cut to n elements or extended with zeros
ResizeNegativeAsEmpty(v, n) ==
    [threw |-> FALSE,
     v |-> IF n <= 0 THEN <<>>
           ELSE IF n <= Len(v) THEN SubSeq(v, 1, n) ELSE v \o Zeros(n - Len(v))]
Resize(v, n) ==
    IF n < 0 THEN [threw |-> TRUE, v |-> v]
    ELSE [threw |-> FALSE,
          v |-> IF n <= Len(v) THEN SubSeq(v, 1, n) ELSE v \o Zeros(n - Len(v))]

\* encryptRSA(rsa, message), rnd being what the library draws for the padding
encryptRSA(h, msg, rnd) ==
    LET encrypted0 == Zeros(RSA_size(h))
        r == RSA_public_encrypt(FlenArg(msg), c_str(msg), encrypted0, h, rnd)
        encryptedLength == r.ret
        resized == Resize(r.to, encryptedLength)
    IN [threw |-> resized.threw, encrypted |-> resized.v,
        encryptedLength |-> encryptedLength]

----------------------------------------------------------------------------
(* ECDSA.  The curve stands for NID_X9_62_prime256v1: y^2 = x^3 + x + 7 over *)
(* GF(151), of prime order 149, so that a scalar takes one byte where a      *)
(* P-256 scalar takes 32.                                                    *)

CurveP == 151
CurveA == 1
CurveOrder == 149
\* the bytes of a scalar of the group (32 for P-256)
OrderBytes == 1
Generator == <<1, 3>>
\* the point at infinity (not a point of the curve)
Infinity == <<0, 0>>

\* the private keys EC_KEY_generate_key may produce (0 is "no key material")
EccPrivKeys == {5, 77}
\* the nonces the signing call may draw (0: the random generator failed)
Nonces == {3, 10}

RECURSIVE ModPow(_, _, _)
ModPow(a, e, m) ==
    IF e = 0 THEN 1 % m
    ELSE LET h == ModPow(a, e \div 2, m)
         IN IF e % 2 = 0 THEN (h * h) % m ELSE (((h * h) % m) * (a % m)) % m

\* the inverse modulo a prime m
ModInv(a, m) == ModPow(a % m, m - 2, m)

PointAdd(P, Q) ==
    IF P = Infinity THEN Q
    ELSE IF Q = Infinity THEN P
    ELSE IF P[1] = Q[1] /\ (P[2] + Q[2]) % CurveP = 0 THEN Infinity
    ELSE LET lam == IF P = Q
                    THEN ((3 * P[1] * P[1] + CurveA) * ModInv(2 * P[2], CurveP)) % CurveP
                    ELSE (((Q[2] - P[2]) % CurveP) * ModInv(Q[1] - P[1], CurveP)) % CurveP
             x == (lam * lam - P[1] - Q[1]) % CurveP
         IN <<x, (lam * (P[1] - x) - P[2]) % CurveP>>

RECURSIVE ScalarMul(_, _)
ScalarMul(k, P) ==
    IF k = 0 THEN Infinity
    ELSE LET h == ScalarMul(k \div 2, P)
             d == PointAdd(h, h)
         IN IF k % 2 = 0 THEN d ELSE PointAdd(d, P)

\* the public key of private key d
PublicKey(d) == ScalarMul(d, Generator)

\* BN_bin2bn(buf, len): the big-endian number of the bytes
RECURSIVE BytesToInt(_)
BytesToInt(buf) ==
    IF Len(buf) = 0 THEN 0
    ELSE 256 * BytesToInt(SubSeq(buf, 1, Len(buf) - 1)) + buf[Len(buf)]

\* how the library reads the dgst argument: only its leftmost bytes, as many
\* as a scalar has, enter the signature equation
DigestToInt(dgst) ==
    BytesToInt(SubSeq(dgst, 1, IF Len(dgst) > OrderBytes THEN OrderBytes
                                ELSE Len(dgst)))

\* i2d of an ASN.1 INTEGER below 256, and of the SEQUENCE (r, s)
DerInt(v) == IF v >= 128 THEN <<2, 2, 0, v>> ELSE <<2, 1, v>>
DerSig(r, s) == <<48, Len(DerInt(r)) + Len(DerInt(s))>> \o DerInt(r) \o DerInt(s)

\* ECDSA_size(key): the longest encoding of a signature, 0 for a null key
ECDSA_size(k) == IF k.st = "null" THEN 0 ELSE 2 + 2 * (3 + OrderBytes)

\* the pair (r, s) of nonce k on digest value z under private key d
SigR(k) == ScalarMul(k, Generator)[1] % CurveOrder
SigS(z, d, k) == (ModInv(k, CurveOrder) * ((z + SigR(k) * d) % CurveOrder)) % CurveOrder

\* ECDSA_sign(0, dgst, dlen, sig, &siglen, key): its return value, the length
\* it stores in siglen and what it leaves in sig.  It fails, storing length 0,
\* when the key has no private part or no usable nonce can be drawn.
ECDSA_sign(dgst, sig, d, nonce) ==
    LET z == DigestToInt(dgst)
    IN IF d = 0 \/ nonce = 0 \/ SigR(nonce) = 0 \/ SigS(z, d, nonce) = 0
       THEN [ret |-> 0, siglen |-> 0, sig |-> sig]
       ELSE LET der == DerSig(SigR(nonce), SigS(z, d, nonce))
            IN [ret |-> 1, siglen |-> Len(der), sig |-> Copy(der, sig, 1)]

\* d2i of the signature, accepted only if encoding it again gives exactly
\* the bytes of sig: the (r, s) read from sig, if any
DerDecode(sig) ==
    LET At(i) == IF i >= 1 /\ i <= Len(sig) THEN sig[i] ELSE 0
        r == IF At(4) = 1 THEN At(5) ELSE At(6)
        sOff == 4 + At(4)
        s == IF At(sOff + 2) = 1 THEN At(sOff + 3) ELSE At(sOff + 4)
    IN IF r \in 1..(CurveOrder - 1) /\ s \in 1..(CurveOrder - 1)
       THEN IF DerSig(r, s) = sig THEN {<<r, s>>} ELSE {}
       ELSE {}

\* ECDSA_verify(0, dgst, dlen, sig, siglen, key) against public key Q
ECDSA_verify(dgst, sig, Q) ==
    \E rs \in DerDecode(sig) :
        LET z == DigestToInt(dgst)
            w == ModInv(rs[2], CurveOrder)
            u1 == (z * w) % CurveOrder
            u2 == (rs[1] * w) % CurveOrder
            X == PointAdd(ScalarMul(u1, Generator), ScalarMul(u2, Q))
        IN X # Infinity /\ X[1] % CurveOrder = rs[1]

\* the length signature.resize is given: sigLen as the signing call left it
SigLenUnchanged(sizeBefore, written) == sizeBefore
SigLenAfterSign(sizeBefore, written) == written

\* signECC(key, data), nonce being what the signing call draws
signECC(k, data, nonce) ==
    LET sigLen0 == ECDSA_size(k)
        signature0 == Zeros(sigLen0)
        r == ECDSA_sign(data, signature0, k.d, nonce)
        sigLen == SigLenAfterSign(sigLen0, r.siglen)
    IN [ret |-> r.ret, siglen |-> r.siglen, nonce |-> nonce,
        signature |-> Resize(r.sig, sigLen).v]

----------------------------------------------------------------------------
(* main and the routines it calls, one step per library call or routine. *)

\* std::string message = "Secret message for RSA encryption"
MainMessageRSA ==
    <<83, 101, 99, 114, 101, 116, 32, 109, 101, 115, 115, 97, 103, 101, 32,
      102, 111, 114, 32, 82, 83, 65, 32, 101, 110, 99, 114, 121, 112, 116,
      105, 111, 110>>
\* message = "Secret message for AES encryption"
MainMessageAES ==
    <<83, 101, 99, 114, 101, 116, 32, 109, 101, 115, 115, 97, 103, 101, 32,
      102, 111, 114, 32, 65, 69, 83, 32, 101, 110, 99, 114, 121, 112, 116,
      105, 111, 110>>
\* std::string data = "Message for ECC signing"
MainData ==
    <<77, 101, 115, 115, 97, 103, 101, 32, 102, 111, 114, 32, 69, 67, 67, 32,
      115, 105, 103, 110, 105, 110, 103>>

\* the routines of main in the order of its text
MainSequence ==
    <<"generateRSAKeys", "encryptRSA", "generateAES128Key", "encryptAES",
      "generateECCKeys", "signECC", "RSA_free", "EC_KEY_free">>

\* the positions at which the run has ended
Stopped == {"done", "terminated", "crashed"}

\* the state when a routine starts at position p with the given inputs
InitState(p, m, d) ==
    /\ pc = p
    /\ message = m
    /\ rsa = [st |-> "unset", n |-> "null", key |-> 0]
    /\ bne = "unset"
    /\ encrypted = <<>>
    /\ rsaRet = [called |-> FALSE, ret |-> 0, rnd |-> 0, returned |-> FALSE]
    /\ aesKey = <<>>
    /\ ivGen = <<>>
    /\ encryptedAes = <<>>
    /\ ecc = [st |-> "unset", d |-> 0]
    /\ dataBytes = d
    /\ signature = <<>>
    /\ sigRet = [called |-> FALSE, ret |-> 0, siglen |-> 0, nonce |-> 0]
    /\ steps = <<>>
    /\ libOk = TRUE
    /\ frees = [rsa |-> 0, ecc |-> 0, bne |-> 0]
    /\ badUse = FALSE
    /\ stop = "none"

\* main starts
Init == InitState("RSA_new", <<>>, <<>>)

\* a handle given to the library that was never created or is already released
Stale(st) == st \in {"unset", "freed"}

\* the run ends: an uncaught exception (std::terminate) or a signal
Abort(where, what) ==
    /\ pc' = where
    /\ stop' = what
    /\ libOk' = FALSE

\* RSA* rsa = RSA_new();
RSA_new_step ==
    /\ pc = "RSA_new"
    /\ \E ok \in BOOLEAN :
          /\ rsa' = [st |-> IF ok THEN "live" ELSE "null", n |-> "null", key |-> 0]
          /\ libOk' = (libOk /\ ok)
    /\ steps' = Append(steps, "generateRSAKeys")
    /\ pc' = "BN_new"
    /\ UNCHANGED <<message, bne, encrypted, rsaRet, aesKey, ivGen, encryptedAes,
                   ecc, dataBytes, signature, sigRet, frees, badUse, stop>>

\* BIGNUM* bne = BN_new();
BN_new_step ==
    /\ pc = "BN_new"
    /\ \E ok \in BOOLEAN :
          /\ bne' = IF ok THEN "live" ELSE "null"
          /\ libOk' = (libOk /\ ok)
    /\ pc' = "BN_set_word"
    /\ UNCHANGED <<message, rsa, encrypted, rsaRet, aesKey, ivGen, encryptedAes,
                   ecc, dataBytes, signature, sigRet, steps, frees, badUse, stop>>

\* BN_set_word(bne, RSA_F4): writes through bne, a null bne is dereferenced
BN_set_word_step ==
    /\ pc = "BN_set_word"
    /\ IF bne = "null"
       THEN Abort("crashed", "SIGSEGV") /\ UNCHANGED badUse
       ELSE /\ \E ok \in BOOLEAN : libOk' = (libOk /\ ok)
            /\ badUse' = (badUse \/ Stale(bne))
            /\ pc' = "RSA_generate_key_ex"
            /\ UNCHANGED stop
    /\ UNCHANGED <<message, rsa, bne, encrypted, rsaRet, aesKey, ivGen,
                   encryptedAes, ecc, dataBytes, signature, sigRet, steps, frees>>

\* RSA_generate_key_ex(rsa, 2048, bne, nullptr): fills rsa with a key pair, or
\* fails and leaves it without one, its modulus still null or allocated and
\* zero; a null rsa is dereferenced
RSA_generate_key_ex_step ==
    /\ pc = "RSA_generate_key_ex"
    /\ IF rsa.st = "null"
       THEN Abort("crashed", "SIGSEGV") /\ UNCHANGED <<rsa, badUse>>
       ELSE /\ \E k \in RsaKeyIds \cup {0}, left \in {"null", "zero"} :
                 /\ rsa' = [rsa EXCEPT !.key = k,
                                       !.n = IF k # 0 THEN "set" ELSE left]
                 /\ libOk' = (libOk /\ k # 0)
            /\ badUse' = (badUse \/ Stale(rsa.st) \/ Stale(bne))
            /\ pc' = "BN_free"
            /\ UNCHANGED stop
    /\ UNCHANGED <<message, bne, encrypted, rsaRet, aesKey, ivGen, encryptedAes,
                   ecc, dataBytes, signature, sigRet, steps, frees>>

\* BN_free(bne); return rsa;
BN_free_step ==
    /\ pc = "BN_free"
    /\ bne' = IF bne = "null" THEN "null" ELSE "freed"
    /\ frees' = [frees EXCEPT !.bne = @ + (IF bne = "null" THEN 0 ELSE 1)]
    /\ badUse' = (badUse \/ Stale(bne))
    /\ pc' = "encryptRSA"
    /\ UNCHANGED <<message, rsa, encrypted, rsaRet, aesKey, ivGen, encryptedAes,
                   ecc, dataBytes, signature, sigRet, steps, libOk, stop>>

\* encrypted = encryptRSA(rsaKey, m).  RSA_size reads the modulus of rsa: a
\* null rsa, or a null modulus, is dereferenced.  The vector may
\* fail to allocate (std::bad_alloc); resize may throw (std::length_error).
EncryptRSA(m) ==
    /\ pc = "encryptRSA"
    /\ message' = m
    /\ steps' = Append(steps, "encryptRSA")
    /\ IF rsa.st = "null" \/ rsa.n = "null"
       THEN /\ Abort("crashed", "SIGSEGV")
            /\ UNCHANGED <<encrypted, rsaRet, badUse>>
       ELSE /\ badUse' = (badUse \/ Stale(rsa.st))
            /\ \E alloc \in BOOLEAN, rnd \in RandSeeds \cup {0} :
                 LET r == encryptRSA(rsa, m, rnd)
                 IN IF ~alloc
                    THEN Abort("terminated", "std::bad_alloc")
                         /\ UNCHANGED <<encrypted, rsaRet>>
                    ELSE /\ rsaRet' = [called |-> TRUE, ret |-> r.encryptedLength,
                                        rnd |-> rnd, returned |-> ~r.threw]
                         /\ IF r.threw
                            THEN Abort("terminated", "std::length_error")
                                 /\ UNCHANGED encrypted
                            ELSE /\ encrypted' = r.encrypted
                                 /\ pc' = "generateAES128Key"
                                 /\ UNCHANGED <<libOk, stop>>
    /\ UNCHANGED <<rsa, bne, aesKey, ivGen, encryptedAes, ecc, dataBytes,
                   signature, sigRet, frees>>

MainEncryptRSA == EncryptRSA(MainMessageRSA)

\* aesKey = generateAES128Key()
GenerateAES128Key ==
    /\ pc = "generateAES128Key"
    /\ steps' = Append(steps, "generateAES128Key")
    /\ \E alloc \in BOOLEAN, rnd \in RandSeeds \cup {0} :
          IF ~alloc
          THEN Abort("terminated", "std::bad_alloc") /\ UNCHANGED aesKey
          ELSE /\ aesKey' = RAND_bytes(Zeros(16), rnd)
               /\ libOk' = (libOk /\ rnd # 0)
               /\ pc' = "encryptAES"
               /\ UNCHANGED stop
    /\ UNCHANGED <<message, rsa, bne, encrypted, rsaRet, ivGen, encryptedAes,
                   ecc, dataBytes, signature, sigRet, frees, badUse>>

\* encryptedAes = encryptAES(aesKey, m)
EncryptAES(m) ==
    /\ pc = "encryptAES"
    /\ message' = m
    /\ steps' = Append(steps, "encryptAES")
    /\ \E alloc \in BOOLEAN, rnd \in RandSeeds \cup {0} :
          LET r == encryptAES(aesKey, m, rnd)
          IN IF ~alloc
             THEN Abort("terminated", "std::bad_alloc")
                  /\ UNCHANGED <<ivGen, encryptedAes>>
             ELSE /\ ivGen' = r.iv
                  /\ encryptedAes' = r.output
                  /\ libOk' = (libOk /\ rnd # 0)
                  /\ pc' = "EC_KEY_new"
                  /\ UNCHANGED stop
    /\ UNCHANGED <<rsa, bne, encrypted, rsaRet, aesKey, ecc, dataBytes,
                   signature, sigRet, frees, badUse>>

MainEncryptAES == EncryptAES(MainMessageAES)

\* EC_KEY* key = EC_KEY_new_by_curve_name(NID_X9_62_prime256v1);
EC_KEY_new_step ==
    /\ pc = "EC_KEY_new"
    /\ \E ok \in BOOLEAN :
          /\ ecc' = [st |-> IF ok THEN "live" ELSE "null", d |-> 0]
          /\ libOk' = (libOk /\ ok)
    /\ steps' = Append(steps, "generateECCKeys")
    /\ pc' = "EC_KEY_generate_key"
    /\ UNCHANGED <<message, rsa, bne, encrypted, rsaRet, aesKey, ivGen,
                   encryptedAes, dataBytes, signature, sigRet, frees, badUse, stop>>

\* EC_KEY_generate_key(key); return key;  (a null key is refused, returning 0)
EC_KEY_generate_key_step ==
    /\ pc = "EC_KEY_generate_key"
    /\ IF ecc.st = "null"
       THEN UNCHANGED <<ecc, libOk>>
       ELSE \E d \in EccPrivKeys \cup {0} :
               /\ ecc' = [ecc EXCEPT !.d = d]
               /\ libOk' = (libOk /\ d # 0)
    /\ badUse' = (badUse \/ Stale(ecc.st))
    /\ pc' = "signECC"
    /\ UNCHANGED <<message, rsa, bne, encrypted, rsaRet, aesKey, ivGen,
                   encryptedAes, dataBytes, signature, sigRet, steps, frees, stop>>

\* dataBytes(data.begin(), data.end()); signature = signECC(eccKey, dataBytes).
\* ECDSA_size accepts a null key (0); ECDSA_sign dereferences it.
SignECC(data) ==
    /\ pc = "signECC"
    /\ steps' = Append(steps, "signECC")
    /\ \E alloc \in BOOLEAN, nonce \in Nonces \cup {0} :
          IF ~alloc
          THEN /\ Abort("terminated", "std::bad_alloc")
               /\ UNCHANGED <<dataBytes, signature, sigRet, badUse>>
          ELSE /\ dataBytes' = data
               /\ IF ecc.st = "null"
                  THEN /\ Abort("crashed", "SIGSEGV")
                       /\ UNCHANGED <<signature, sigRet, badUse>>
                  ELSE LET r == signECC(ecc, data, nonce)
                       IN /\ signature' = r.signature
                          /\ sigRet' = [called |-> TRUE, ret |-> r.ret,
                                        siglen |-> r.siglen, nonce |-> r.nonce]
                          /\ libOk' = (libOk /\ r.ret = 1)
                          /\ badUse' = (badUse \/ Stale(ecc.st))
                          /\ pc' = "RSA_free"
                          /\ UNCHANGED stop
    /\ UNCHANGED <<message, rsa, bne, encrypted, rsaRet, aesKey, ivGen,
                   encryptedAes, ecc, frees>>

\* main at line 132 (the variant returns early when the key has no private part)
MainSignECCReturnsOnFailure ==
    IF pc = "signECC" /\ ecc.st = "live" /\ ecc.d = 0
    THEN /\ pc' = "done"
         /\ steps' = Append(steps, "signECC")
         /\ libOk' = FALSE
         /\ UNCHANGED <<message, rsa, bne, encrypted, rsaRet, aesKey, ivGen,
                        encryptedAes, ecc, dataBytes, signature, sigRet, frees,
                        badUse, stop>>
    ELSE SignECC(MainData)
MainSignECC == SignECC(MainData)

\* the handle after its release function: a null handle is left alone
Released(st) == IF st = "null" THEN "null" ELSE "freed"

\* RSA_free(rsaKey);
RSA_free_skipped ==
    /\ pc = "RSA_free"
    /\ steps' = Append(steps, "RSA_free")
    /\ pc' = "EC_KEY_free"
    /\ UNCHANGED <<message, rsa, bne, encrypted, rsaRet, aesKey, ivGen,
                   encryptedAes, ecc, dataBytes, signature, sigRet, libOk,
                   frees, badUse, stop>>
RSA_free_step ==
    /\ pc = "RSA_free"
    /\ rsa' = [rsa EXCEPT !.st = Released(rsa.st)]
    /\ frees' = [frees EXCEPT !.rsa = @ + (IF rsa.st = "null" THEN 0 ELSE 1)]
    /\ badUse' = (badUse \/ Stale(rsa.st))
    /\ steps' = Append(steps, "RSA_free")
    /\ pc' = "EC_KEY_free"
    /\ UNCHANGED <<message, bne, encrypted, rsaRet, aesKey, ivGen, encryptedAes,
                   ecc, dataBytes, signature, sigRet, libOk, stop>>

\* EC_KEY_free(eccKey);
EC_KEY_free_step ==
    /\ pc = "EC_KEY_free"
    /\ ecc' = [ecc EXCEPT !.st = Released(ecc.st)]
    /\ frees' = [frees EXCEPT !.ecc = @ + (IF ecc.st = "null" THEN 0 ELSE 1)]
    /\ badUse' = (badUse \/ Stale(ecc.st))
    /\ steps' = Append(steps, "EC_KEY_free")
    /\ pc' = "return"
    /\ UNCHANGED <<message, rsa, bne, encrypted, rsaRet, aesKey, ivGen,
                   encryptedAes, dataBytes, signature, sigRet, libOk, stop>>

\* return 0;
Return0 ==
    /\ pc = "return"
    /\ pc' = "done"
    /\ UNCHANGED <<message, rsa, bne, encrypted, rsaRet, aesKey, ivGen,
                   encryptedAes, ecc, dataBytes, signature, sigRet, steps,
                   libOk, frees, badUse, stop>>

Next ==
    \/ RSA_new_step
    \/ BN_new_step
    \/ BN_set_word_step
    \/ RSA_generate_key_ex_step
    \/ BN_free_step
    \/ MainEncryptRSA
    \/ GenerateAES128Key
    \/ MainEncryptAES
    \/ EC_KEY_new_step
    \/ EC_KEY_generate_key_step
    \/ MainSignECC
    \/ RSA_free_step
    \/ EC_KEY_free_step
    \/ Return0

Spec == Init /\ [][Next]_vars

----------------------------------------------------------------------------
(* The routines of the class called on their own, for any input.            *)

\* seeds of the contents of the messages tried (0: a message of zero bytes)
MsgSeeds == {0, 37}

\* generateRSAKeys, then encryptRSA on any message up to past the capacity
RsaMessages ==
    {MkMsg(n, seed) :
        n \in 0..(((RSA_KEY_BITS + 7) \div 8) - RSA_PKCS1_PADDING_SIZE
                       + RsaOverCapacity),
        seed \in MsgSeeds}

InitRSA == \E m \in RsaMessages : InitState("RSA_new", m, <<>>)

TestEncryptRSA == EncryptRSA(message)

NextRSA ==
    \/ RSA_new_step
    \/ BN_new_step
    \/ BN_set_word_step
    \/ RSA_generate_key_ex_step
    \/ BN_free_step
    \/ TestEncryptRSA

SpecRSA == InitRSA /\ [][NextRSA]_vars

\* generateAES128Key, then encryptAES on any message
AesMessages == {MkMsg(n, seed) : n \in 0..MaxAesLen, seed \in MsgSeeds}

InitAES == \E m \in AesMessages : InitState("generateAES128Key", m, <<>>)

TestEncryptAES == EncryptAES(message)

NextAES ==
    \/ GenerateAES128Key
    \/ TestEncryptAES

SpecAES == InitAES /\ [][NextAES]_vars

\* generateECCKeys, then signECC on any data
DataByteValues == {0, 65, 66}

RECURSIVE SeqsUpTo(_, _)
SeqsUpTo(S, n) ==
    IF n = 0 THEN {<<>>}
    ELSE LET shorter == SeqsUpTo(S, n - 1)
         IN shorter \cup {Append(q, b) : q \in shorter, b \in S}

DataSet == SeqsUpTo(DataByteValues, MaxDataLen)

InitECC == \E d \in DataSet : InitState("EC_KEY_new", <<>>, d)

TestSignECC == SignECC(dataBytes)

NextECC ==
    \/ EC_KEY_new_step
    \/ EC_KEY_generate_key_step
    \/ TestSignECC

SpecECC == InitECC /\ [][NextECC]_vars

----------------------------------------------------------------------------
(* The properties. *)

\* encryptAES has returned its buffer
AesReturned == pc = "EC_KEY_new"
\* encryptRSA has returned its buffer
RsaReturned == rsaRet.returned
\* signECC has returned its buffer
SigReturned == sigRet.called

IsPrefix(p, q) == Len(p) <= Len(q) /\ SubSeq(q, 1, Len(p)) = p

\* C1: decrypting the bytes of encryptAES's output after the first 16 with
\* AES-128-CBC under the same key, with the first 16 bytes as the IV, gives the
\* message followed by zero bytes only.
AesRoundTrip ==
    AesReturned =>
        CbcDecrypt(SubSeq(encryptedAes, AES_BLOCK_SIZE + 1, Len(encryptedAes)),
                   aesKey, SubSeq(encryptedAes, 1, AES_BLOCK_SIZE))
          = message \o Zeros(Len(encryptedAes) - AES_BLOCK_SIZE - Len(message))

AesRoundTripWitness ==
    /\ AesReturned
    /\ Len(message) = AES_BLOCK_SIZE + 1
    /\ message[1] # 0
    /\ ivGen # Zeros(AES_BLOCK_SIZE)
    /\ encryptedAes[AES_BLOCK_SIZE + 1] # message[1]

\* C2 as amended: whenever encryptRSA returns a buffer for a key pair made by
\* generateRSAKeys, the message has at most RSA_size - 11 bytes and decrypting
\* the buffer with the private key gives exactly the message; with a longer
\* message encryptRSA returns nothing.
RsaRoundTripWithinCapacity ==
    /\ RsaReturned =>
          /\ Len(message) <= (RSA_KEY_BITS \div 8) - RSA_PKCS1_PADDING_SIZE
          /\ RSA_private_decrypt(encrypted, rsa) = [ok |-> TRUE, msg |-> message]
    /\ (rsaRet.called /\ Len(message) > (RSA_KEY_BITS \div 8) - RSA_PKCS1_PADDING_SIZE)
          => (~RsaReturned /\ pc = "terminated")

RsaRoundTripWitness ==
    /\ RsaReturned
    /\ Len(message) = (RSA_KEY_BITS \div 8) - RSA_PKCS1_PADDING_SIZE
    /\ message[1] # 0
    /\ RSA_private_decrypt(encrypted, rsa).msg = message

\* C2 as stated: for a message of any length and a key pair made by
\* generateRSAKeys, once the library had its random bytes, encryptRSA returns a
\* buffer that decrypts to the message.
RsaRoundTripAnyLength ==
    (rsaRet.called /\ rsa.n = "set" /\ rsaRet.rnd # 0) =>
        /\ RsaReturned
        /\ RSA_private_decrypt(encrypted, rsa) = [ok |-> TRUE, msg |-> message]

\* a signature with one of its bytes changed
TamperedSignatures(sig) ==
    {[sig EXCEPT ![i] = b] : i \in 1..Len(sig), b \in Byte} \ {sig}

\* C3 as stated: a signature returned by a successful signing call verifies
\* against the public key for the same data, and does not verify for any other
\* data nor when one of its bytes is changed.
EcdsaSignVerifyTamper ==
    (SigReturned /\ sigRet.ret = 1) =>
        /\ ECDSA_verify(dataBytes, signature, PublicKey(ecc.d))
        /\ \A other \in DataSet \ {dataBytes} :
              ~ECDSA_verify(other, signature, PublicKey(ecc.d))
        /\ \A sig \in TamperedSignatures(signature) :
              ~ECDSA_verify(dataBytes, sig, PublicKey(ecc.d))

\* C4: when RSA_public_encrypt returns -1, encryptRSA does not return a buffer
\* to its caller but leaves by an exception; when it succeeds, the buffer
\* returned has exactly RSA_size(rsa) bytes.
RsaFailureSignalled ==
    /\ (rsaRet.called /\ rsaRet.ret = -1) =>
          /\ ~RsaReturned
          /\ encrypted = <<>>
          /\ pc = "terminated"
          /\ stop = "std::length_error"
    /\ (rsaRet.called /\ rsaRet.ret # -1) =>
          /\ RsaReturned
          /\ Len(encrypted) = RSA_KEY_BITS \div 8

RsaFailureSignalledWitness ==
    /\ rsaRet.called
    /\ rsaRet.ret = -1
    /\ rsaRet.rnd # 0
    /\ Len(message) > (RSA_KEY_BITS \div 8) - RSA_PKCS1_PADDING_SIZE
    /\ pc = "terminated"

\* C5: the first 16 bytes of encryptAES's output are the IV as it was generated,
\* before the encryption call overwrote the iv buffer, and the rest is the CBC
\* ciphertext of the zero-padded message under that IV.
AesOutputLayout ==
    AesReturned =>
        LET padded == message \o Zeros(Len(encryptedAes) - AES_BLOCK_SIZE - Len(message))
            cbc == AES_cbc_encrypt(padded, Len(padded), aesKey, ivGen)
        IN /\ SubSeq(encryptedAes, 1, AES_BLOCK_SIZE) = ivGen
           /\ SubSeq(encryptedAes, AES_BLOCK_SIZE + 1, Len(encryptedAes)) = cbc.out

AesOutputLayoutWitness ==
    /\ AesReturned
    /\ ivGen \in {RandomBuf(AES_BLOCK_SIZE, seed) : seed \in RandSeeds}
    /\ SubSeq(encryptedAes, 1, AES_BLOCK_SIZE) = ivGen
    /\ Len(message) > 2 * AES_BLOCK_SIZE
    /\ message[1] # 0
    /\ AES_cbc_encrypt(message \o Zeros(Len(encryptedAes) - AES_BLOCK_SIZE - Len(message)),
                       Len(encryptedAes) - AES_BLOCK_SIZE, aesKey, ivGen).ivec # ivGen

\* generateRSAKeys has not returned yet
GenerateRSAKeysRunning ==
    pc \in {"RSA_new", "BN_new", "BN_set_word", "RSA_generate_key_ex", "BN_free"}

\* C6: while every library call has succeeded, no handle is used before it is
\* created or after it is released; the BIGNUM is freed, once, by the time
\* generateRSAKeys has returned; and when main has returned, the RSA key and
\* the EC key have each been released exactly once and no handle is live.
HandleLifecycle ==
    libOk =>
        /\ ~badUse
        /\ ~GenerateRSAKeysRunning => (bne = "freed" /\ frees.bne = 1)
        /\ pc \in {"encryptRSA", "generateAES128Key", "encryptAES", "EC_KEY_new",
                   "EC_KEY_generate_key", "signECC", "RSA_free"}
              => (rsa.st = "live" /\ frees.rsa = 0)
        /\ pc \in {"signECC", "RSA_free", "EC_KEY_free"}
              => (ecc.st = "live" /\ frees.ecc = 0)
        /\ pc = "done" =>
              /\ rsa.st = "freed" /\ ecc.st = "freed" /\ bne = "freed"
              /\ frees = [rsa |-> 1, ecc |-> 1, bne |-> 1]

HandleLifecycleWitness ==
    /\ pc = "done"
    /\ libOk
    /\ rsaRet.returned
    /\ sigRet.ret = 1
    /\ frees = [rsa |-> 1, ecc |-> 1, bne |-> 1]

\* C7 as stated: however main ends after a handle was created, by returning or
\* by an exception, every handle created so far has been released.
HandlesReleasedOnEveryExit ==
    pc \in {"done", "terminated"} => (rsa.st # "live" /\ ecc.st # "live")

\* C8: a buffer returned by encryptRSA has the length RSA_public_encrypt
\* returned, and a buffer returned by signECC has the length the signing call
\* stored in sigLen, whether the call succeeded or failed.
BufferLengthAsReported ==
    /\ RsaReturned => Len(encrypted) = rsaRet.ret
    /\ SigReturned => Len(signature) = sigRet.siglen
    /\ (SigReturned /\ sigRet.ret = 0) => signature = <<>>

BufferLengthAsReportedWitness ==
    /\ RsaReturned
    /\ SigReturned
    /\ sigRet.ret = 1
    /\ Len(signature) < ECDSA_size(ecc)
    /\ Len(encrypted) = rsaRet.ret

\* C9 as stated: whatever the library calls return, main ends by returning 0
\* after entering every routine of its sequence.
MainAlwaysReturns ==
    pc \in Stopped => (pc = "done" /\ steps = MainSequence)

\* C9 as amended: main never branches on a result.  The routines it has entered
\* are an initial part of its sequence, and all of it once main has returned;
\* main goes on after any result, and ends early only by a signal, on a null
\* BIGNUM, RSA or EC handle or a null RSA modulus, or by an exception:
\* std::length_error after RSA_public_encrypt returned a negative length, or
\* std::bad_alloc.
MainNeverBranches ==
    /\ IsPrefix(steps, MainSequence)
    /\ pc = "done" => steps = MainSequence
    /\ pc \notin Stopped => (stop = "none" /\ ENABLED Next)
    /\ pc = "crashed" =>
          /\ stop = "SIGSEGV"
          /\ bne = "null" \/ rsa.st = "null" \/ rsa.n = "null" \/ ecc.st = "null"
    /\ pc = "terminated" =>
          \/ stop = "std::bad_alloc"
          \/ stop = "std::length_error" /\ rsaRet.called /\ rsaRet.ret < 0

MainNeverBranchesWitness ==
    /\ pc = "done"
    /\ ~libOk
    /\ ecc.d = 0
    /\ sigRet.ret = 0
    /\ steps = MainSequence

\* C10: the buffer encryptAES returns has 16 + paddedLength bytes, where
\* paddedLength = (floor(n / 16) + 1) * 16 for a message of n bytes: a multiple
\* of 16 with n < paddedLength <= n + 16, and 16 more than n when n is a multiple
\* of 16 (the empty message included).
AesPaddedLength ==
    AesReturned =>
        LET n == Len(message)
            paddedLength == Len(encryptedAes) - 16
        IN /\ paddedLength = ((n \div 16) + 1) * 16
           /\ paddedLength % 16 = 0
           /\ n < paddedLength
           /\ paddedLength <= n + 16
           /\ (n % 16 = 0) => paddedLength = n + 16

AesPaddedLengthWitness ==
    /\ AesReturned
    /\ Len(message) = 2 * AES_BLOCK_SIZE
    /\ Len(encryptedAes) = 4 * AES_BLOCK_SIZE

====
